---- MODULE Spec2Model ----
(***************************************************************************)
(* pyeo.classification: the chunked pixel classification of                *)
(* classify_image, the array layout transforms it uses, autochunk, the     *)
(* signature extraction of get_training_data and shapefile_to_raster, and  *)
(* the signature CSV of extract_features_to_csv and load_signatures.       *)
(*                                                                         *)
(* An ndarray is a record [shape, data]: data is the buffer in C order.    *)
(* Indices held in arrays (good_indices, offsets) are 0-based as in numpy; *)
(* TLA+ sequences are 1-based, so element i of a buffer is data[i + 1].    *)
(* A probability is held as its numerator over Unit (a power of two, so    *)
(* every value is exact in float32 and float64).                           *)
(***************************************************************************)
EXTENDS Integers, Sequences, FiniteSets, TLC

\* ---------------------------------------------------------------- bounds
MaxBands == 2
MaxPixels == 4
MaxHoles == 1
MaxChunks == 3
ProbBits == 2
NClasses == 2
MaxSide == 4
MaxMemLimit == 20
MaxPolygons == 2
MaxSamples == 2

NoDataValues == {0, 1}

RECURSIVE Pow2(_)
Pow2(n) == IF n = 0 THEN 1 ELSE 2 * Pow2(n - 1)

Unit == Pow2(ProbBits)

\* ---------------------------------------------------------------- ndarray
RECURSIVE Prod(_)
Prod(s) == IF Len(s) = 0 THEN 1 ELSE Head(s) * Prod(Tail(s))

Arr(shape, data) == [shape |-> shape, data |-> data]

NDim(a) == Len(a.shape)

\* The outcome of an operation that raised: the exception's name.
Raised(name) == [error |-> name]

IsError(r) == "error" \in DOMAIN r

Min(a, b) == IF a < b THEN a ELSE b

Max(a, b) == IF a > b THEN a ELSE b

\* a[i, j] of a 2-d array and a[i, j, k] of a 3-d array (0-based).
At2(a, i, j) == a.data[i * a.shape[2] + j + 1]

At3(a, i, j, k) == a.data[(i * a.shape[2] + j) * a.shape[3] + k + 1]

\* np.full(shape, fill_value)
Full(shape, value) == Arr(shape, [n \in 1..Prod(shape) |-> value])

\* np.transpose(a, axes) of a 3-d array; axes are numpy's 0-based axis numbers.
\* The multi-index of the flat (0-based) index n in an array of shape s.
Unravel3(n, s) == << n \div (s[2] * s[3]), (n \div s[3]) % s[2], n % s[3] >>

\* The flat index, in the source of shape s, of the element that the transposed
\* array (of shape ns) holds at flat index n: result axis d is source axis axes[d].
TransposeSource(n, s, ns, axes) ==
    LET m == Unravel3(n, ns)
        o == [e \in 1..3 |-> m[CHOOSE d \in 1..3 : axes[d] + 1 = e]]
    IN  o[1] * s[2] * s[3] + o[2] * s[3] + o[3]

TransposedTo(a, ns, axes) ==
    Arr(ns, [n \in 1..Len(a.data) |-> a.data[TransposeSource(n - 1, a.shape, ns, axes) + 1]])

Transpose3(a, axes) ==
    TransposedTo(a, << a.shape[axes[1] + 1], a.shape[axes[2] + 1], a.shape[axes[3] + 1] >>, axes)

\* np.transpose(a, (1, 0)) of a 2-d array.
Transpose2(a) ==
    LET rows == a.shape[1]
        cols == a.shape[2]
        src(n) == (n % rows) * cols + (n \div rows)
    IN  Arr(<<cols, rows>>, [n \in 1..Len(a.data) |-> a.data[src(n - 1) + 1]])

\* A reshape that cuts or zero-pads the buffer to the new size instead of failing.
ReshapeResizing(a, newshape) ==
    Arr(newshape, [n \in 1..Prod(newshape) |->
                      IF n <= Len(a.data) THEN a.data[n] ELSE 0])

\* np.reshape(a, newshape): the same buffer under a new shape; ValueError when
\* the element counts differ.
Reshape(a, newshape) ==
    IF Prod(newshape) = Len(a.data)
    THEN Arr(newshape, a.data)
    ELSE Raised("ValueError")

\* a[:, band] of a 2-d array, as a sequence.
Column(a, band) ==
    [i \in 1..a.shape[1] |-> a.data[(i - 1) * a.shape[2] + band + 1]]

\* Row i (0-based) of a 2-d array, as a sequence.
Row(a, i) == SubSeq(a.data, i * a.shape[2] + 1, (i + 1) * a.shape[2])

\* np.take(a, indices, axis=0) of a 2-d array.
RECURSIVE TakeData(_, _)
TakeData(a, indices) ==
    IF Len(indices) = 0 THEN <<>>
    ELSE Row(a, Head(indices)) \o TakeData(a, Tail(indices))

Take(a, indices) == Arr(<<Len(indices), a.shape[2]>>, TakeData(a, indices))

\* a.squeeze(): every axis of length 1 is dropped.
Squeeze(a) == Arr(SelectSeq(a.shape, LAMBDA d : d # 1), a.data)

\* len(a): the length of the first axis; TypeError for a 0-d array.
PyLen(a) == IF NDim(a) = 0 THEN Raised("TypeError") ELSE [value |-> a.shape[1]]

\* The bounds of the slice [lo : hi] of an axis of length n (0 <= lo).
SliceLo(lo, n) == Min(lo, n)

SliceHi(lo, hi, n) == Max(SliceLo(lo, n), Min(hi, n))

\* a[lo : hi] along the first axis.
Slice(a, lo, hi) ==
    LET n == a.shape[1]
        w == Prod(Tail(a.shape))
        l == SliceLo(lo, n)
        h == SliceHi(lo, hi, n)
    IN  Arr(<<h - l>> \o Tail(a.shape), SubSeq(a.data, l * w + 1, h * w))

\* An assignment that writes the values at the start of the buffer, whatever lo is.
AssignSliceAtStart(a, lo, hi, values) ==
    LET w == Prod(Tail(a.shape))
        count == (SliceHi(lo, hi, a.shape[1]) - SliceLo(lo, a.shape[1])) * w
    IN  Arr(a.shape, [k \in 1..Len(a.data) |-> IF k <= count THEN values[k] ELSE a.data[k]])

\* a[lo : hi] = values (values has the slice's element count).
AssignSlice(a, lo, hi, values) ==
    LET n == a.shape[1]
        w == Prod(Tail(a.shape))
        l == SliceLo(lo, n)
        h == SliceHi(lo, hi, n)
    IN  Arr(a.shape, [k \in 1..Len(a.data) |->
                        IF k > l * w /\ k <= h * w THEN values[k - l * w] ELSE a.data[k]])

\* ---------------------------------------------------------------- dtypes
\* A store into a np.ubyte / GDT_Byte buffer.
ToUByte(x) == x % 256

\* A store of a float (numerator over Unit) into a float32 buffer: exact while the
\* numerator has at most 24 significant bits, else cut to 24 bits.
ToFloat32(q) ==
    IF q < Pow2(24) THEN q ELSE (q \div Pow2(8)) * Pow2(8)

\* An integer as a float (numerator over Unit).
IntToFloat(n) == n * Unit

\* A store of a float (numerator over Unit, >= 0) into an int64 buffer: numpy
\* truncates toward zero. The stored integer is again written over Unit.
ToInt64(q) == (q \div Unit) * Unit

\* ---------------------------------------------------------------- layout
\* The feature table as a raw reshape of the (band, y, x) buffer.
reshape_raster_for_ml_raw(image_array) ==
    Reshape(image_array,
            <<image_array.shape[3] * image_array.shape[2], image_array.shape[1]>>)

reshape_raster_for_ml(image_array) ==
    LET bands == image_array.shape[1]
        y == image_array.shape[2]
        x == image_array.shape[3]
    IN  Reshape(Transpose3(image_array, <<1, 2, 0>>), <<x * y, bands>>)

reshape_ml_out_to_raster(classes, width, height) ==
    Reshape(classes, <<height, width>>)

\* The probability raster as a raw reshape of the (sample, class) buffer.
reshape_prob_out_to_raster_raw(probs, width, height) ==
    Reshape(probs, <<probs.shape[2], height, width>>)

reshape_prob_out_to_raster(probs, width, height) ==
    LET classes == probs.shape[2]
    IN  Reshape(Transpose2(probs), <<classes, height, width>>)

\* ---------------------------------------------------------------- the model
\* The fitted classifier is an external object. PredictRow is the class it gives one
\* feature vector, ProbaRow the class probabilities (numerators over Unit, summing
\* to Unit).
RECURSIVE WeightedSum(_, _)
WeightedSum(row, b) ==
    IF b > Len(row) THEN 0 ELSE row[b] * (2 * b - 1) + WeightedSum(row, b + 1)

PredictRow(row) == 1 + WeightedSum(row, 1)

ProbaRow(row) ==
    [k \in 1..NClasses |->
        IF k = 1 THEN PredictRow(row) % (Unit + 1)
        ELSE IF k = 2 THEN Unit - (PredictRow(row) % (Unit + 1))
        ELSE 0]

\* The samples of an input X as the model iterates it: the rows of a 2-d array, the
\* elements of a 1-d array.
Samples(X) ==
    IF NDim(X) = 2
    THEN [i \in 1..X.shape[1] |-> Row(X, i - 1)]
    ELSE [i \in 1..Len(X.data) |-> <<X.data[i]>>]

\* What a scikit-learn estimator accepts: a 2-d array of at least one sample.
\* Anything else it rejects with ValueError; a duck-typed model may accept it, and
\* scikit-learn before 0.19 takes a 1-d array as one sample, X.reshape(1, -1).
WellFormed(X) == NDim(X) = 2 /\ X.shape[1] >= 1

AsOneSample(X) == Arr(<<1, Len(X.data)>>, X.data)

\* The rows (sequences of equal length cols) as one 2-d array.
FromRows(rows, cols) ==
    Arr(<<Len(rows), cols>>,
        [n \in 1..(Len(rows) * cols) |-> rows[((n - 1) \div cols) + 1][((n - 1) % cols) + 1]])

PredictSamples(s) == Arr(<<Len(s)>>, [i \in 1..Len(s) |-> PredictRow(s[i])])

ProbaSamples(s) == FromRows([i \in 1..Len(s) |-> ProbaRow(s[i])], NClasses)

predict(X) == PredictSamples(Samples(X))

predict_proba(X) == ProbaSamples(Samples(X))

\* ---------------------------------------------------------------- validity mask
\* np.where(column != nodata, True, False)
NotEqual(column, nd) == [i \in 1..Len(column) |-> column[i] # nd]

\* np.logical_and(a, b)
LogicalAnd(a, b) == [i \in 1..Len(a) |-> a[i] /\ b[i]]

\* for band in range(1, nbands): boo = logical_and(boo, image_array[:, band] != nodata)
RECURSIVE AndBands(_, _, _, _)
AndBands(ft, nd, band, boo) ==
    IF band >= ft.shape[2] THEN boo
    ELSE AndBands(ft, nd, band + 1, LogicalAnd(boo, NotEqual(Column(ft, band), nd)))

\* A mask that looks at the first band alone.
ValidityMaskFirstBand(ft, nd) == NotEqual(Column(ft, 0), nd)

ValidityMask(ft, nd) ==
    LET nbands == ft.shape[2]
        boo == NotEqual(Column(ft, 0), nd)
    IN  IF nbands > 1 THEN AndBands(ft, nd, 1, boo) ELSE boo

\* np.where(boo)[0]: the 0-based indices of the true entries, found by a scan.
RECURSIVE WhereFrom(_, _)
WhereFrom(boo, i) ==
    IF i > Len(boo) THEN <<>>
    ELSE (IF boo[i] THEN <<i - 1>> ELSE <<>>) \o WhereFrom(boo, i + 1)

Where(boo) == WhereFrom(boo, 1)

\* ---------------------------------------------------------------- chunk plan
\* int(n / k) for n >= 0: true division, then truncation toward zero.
TruncDiv(n, k) == IF k > 0 THEN n \div k ELSE 0 - (n \div (0 - k))

\* A chunk size rounded up.
ChunkSizeCeil(n, k) == TruncDiv(n + k - 1, k)

ChunkSize(n, k) == TruncDiv(n, k)

ChunkResid(n, size, k) == n - (size * k)

\* A last chunk that leaves the remainder out.
LastChunkSizeNoResid(size, resid) == size

LastChunkSize(size, resid) == size + resid

\* A loop that starts at chunk 1: range(1, num_chunks).
ChunkRangeFromOne(k) == [i \in 1..(k - 1) |-> i]

\* range(num_chunks), as the sequence of chunk ids in loop order.
ChunkRange(k) == [i \in 1..k |-> i - 1]

\* ---------------------------------------------------------------- scatter
\* for i, v in zip(indices, values): buffer[i] = v; zip stops at the shorter.
ZipScatter(buffer, indices, values) ==
    LET m == Min(Len(indices), Len(values))
    IN  [k \in 1..Len(buffer) |->
            IF \E j \in 1..m : indices[j] = k - 1
            THEN values[CHOOSE j \in 1..m :
                           /\ indices[j] = k - 1
                           /\ \A j2 \in 1..m : indices[j2] = k - 1 => j2 <= j]
            ELSE buffer[k]]

\* The rows of a 2-d array, as a sequence of sequences.
RowsOf(a) == [i \in 1..a.shape[1] |-> Row(a, i - 1)]

\* ---------------------------------------------------------------- state
VARIABLES
    image,           \* the input raster, (band, y, x)
    nodata,          \* the no-data value
    num_chunks,      \* the chunk count asked for
    prob_out_path,   \* whether a probability raster is asked for
    pc,              \* the step classify_image is at
    outcome,         \* "running", "returned", or the exception raised
    image_array,     \* the feature table
    good_indices,    \* indices of the samples valid in every band
    good_samples,    \* their rows, squeezed
    n_good_samples,  \* len(good_samples)
    classes,         \* class buffer (ubyte)
    probs,           \* probability buffer (float32)
    chunk_size,
    chunk_resid,
    chunk_it,        \* position of the loop in ChunkRange(num_chunks)
    chunks,          \* the chunks the loop has entered: offset, size, model input
    class_out_array, \* full-length class buffer (int64)
    prob_out_array,  \* full-length probability buffer (int64)
    class_out,       \* the class raster written (Byte)
    prob_out,        \* the probability raster written (Float32)
    skip_existing,   \* the skip_existing argument
    image_file,      \* what is at image_path: "ok", "missing" or "unreadable"
    model_file,      \* what is at model_path: "ok", "missing" or "unreadable"
    has_n_classes,   \* whether the pickled model has an n_classes_ attribute
    class_file,      \* what is at class_out_path: "absent", "old", "created"
    prob_file,       \* what is at prob_out_path: "absent", "created"
    log,             \* the messages logged at error or warning level
    out_format,      \* the out_format argument, as str(out_format) (line 182)
    composite_call,  \* the call of change_from_composite that classify_image runs in
    tempdirs,        \* the temporary directories that exist, by the function that made them
    tempdirs_made,   \* the temporary directories ever made
    shape_raster,    \* the rasterised shapefile get_training_data has opened
    csv_file,        \* the text of the signature CSV, a sequence of characters
    lt_call,         \* layout transforms called on their own: the call
    lt_result        \* and its result

vars == << image, nodata, num_chunks, prob_out_path, pc, outcome, image_array,
           good_indices, good_samples, n_good_samples, classes, probs, chunk_size,
           chunk_resid, chunk_it, chunks, class_out_array, prob_out_array, class_out,
           prob_out, skip_existing, image_file, model_file, has_n_classes, class_file,
           prob_file, log, out_format, composite_call, tempdirs, tempdirs_made,
           shape_raster, csv_file, lt_call, lt_result >>

\* The arguments of classify_image and the files it is given.
inputs == << nodata, num_chunks, prob_out_path, skip_existing, image_file, model_file,
            has_n_classes, out_format, composite_call >>

\* The backing store at the output paths, and the log.
store == << class_file, prob_file, log >>

layoutVars == << lt_call, lt_result >>

trainingVars == << tempdirs, tempdirs_made, shape_raster, csv_file >>

NoFile == [file |-> "none"]

\* No signature extraction is under way.
NoTraining ==
    /\ tempdirs = {}
    /\ tempdirs_made = {}
    /\ shape_raster = NoFile
    /\ csv_file = NoFile

Empty == Arr(<<0>>, <<>>)

NoCall == [fn |-> "none"]

Pending == [pending |-> TRUE]

\* ---------------------------------------------------------------- inputs
Shapes ==
    { s \in (1..MaxBands) \X (1..MaxPixels) \X (1..MaxPixels) : s[2] * s[3] <= MaxPixels }

RECURSIVE HolesUpTo(_, _)
HolesUpTo(n, k) ==
    IF k = 0 THEN {{}}
    ELSE LET fewer == HolesUpTo(n, k - 1)
         IN  fewer \cup { H \cup {c} : H \in fewer, c \in 1..n }

\* The sets of at most MaxHoles of the cells 1..n, and the set of all of them.
HoleSets(n) == HolesUpTo(n, MaxHoles) \cup {1..n}

\* The rasters of a shape: every cell holds a value of its own, except the cells
\* of H (at most MaxHoles of them), which hold the no-data value.
RastersOf(s, nd) ==
    { Arr(s, [c \in 1..Prod(s) |-> IF c \in H THEN nd ELSE 10 + c]) : H \in HoleSets(Prod(s)) }

Width == image.shape[3]

Height == image.shape[2]

Bands == image.shape[1]

\* The locals of classify_image before it has run.
Fresh ==
    /\ outcome = "running"
    /\ image_array = Empty
    /\ good_indices = <<>>
    /\ good_samples = Empty
    /\ n_good_samples = 0
    /\ classes = Empty
    /\ probs = Empty
    /\ chunk_size = 0
    /\ chunk_resid = 0
    /\ chunk_it = 0
    /\ chunks = <<>>
    /\ class_out_array = Empty
    /\ prob_out_array = Empty
    /\ class_out = Empty
    /\ prob_out = Empty
    /\ prob_file = "absent"
    /\ log = {}

FileStates == {"ok", "missing", "unreadable"}

\* The defaults of classify_image's signature.
DefaultNumChunks == 4

DefaultNoData == 0

DefaultOutFormat == "GTiff"

\* The calls of change_from_composite: its skip_existing argument and what is at
\* composite_path and image_path.
CompositeCalls ==
    { [fn |-> "change_from_composite", skip_existing |-> s, composite_file |-> c,
       image_file |-> i] :
          s \in BOOLEAN, c \in {"ok", "missing"}, i \in {"ok", "missing"} }

\* classify_image is called: its arguments and the files at its paths. num_chunks
\* is any integer the caller passes, zero and negative ones included (for None,
\* lines 170-173 take the result of autochunk, which is modelled on its own below).
InitClassify ==
    /\ composite_call = NoCall
    /\ nodata \in NoDataValues
    /\ num_chunks \in (0 - 1)..MaxChunks
    /\ skip_existing \in BOOLEAN
    /\ image_file \in FileStates
    /\ out_format = DefaultOutFormat
    /\ pc = "start"

\* change_from_composite is called; classify_image's parameters hold their defaults
\* until it is.
InitComposite ==
    /\ composite_call \in CompositeCalls
    /\ nodata = DefaultNoData
    /\ num_chunks = DefaultNumChunks
    /\ skip_existing = FALSE
    /\ image_file = "ok"
    /\ out_format = DefaultOutFormat
    /\ pc = "composite"

Init ==
    /\ InitClassify \/ InitComposite
    /\ image = Empty
    /\ prob_out_path \in BOOLEAN
    /\ model_file \in FileStates
    /\ has_n_classes \in BOOLEAN
    /\ class_file \in {"absent", "old"}
    /\ Fresh
    /\ NoTraining
    /\ lt_call = NoCall
    /\ lt_result = Pending

\* ---------------------------------------------------------------- classify_image
\* A sequence of values stored into a ubyte buffer.
UByteAll(seq) == [i \in 1..Len(seq) |-> ToUByte(seq[i])]

\* A sequence of values stored into a float32 buffer.
Float32All(seq) == [i \in 1..Len(seq) |-> ToFloat32(seq[i])]

outputs == << class_out_array, prob_out_array, class_out, prob_out >>

\* An existence test that always finds the file.
ExistsAlways(file) == TRUE

\* os.path.exists(path) / os.path.isfile(path) of a path of the backing store.
Exists(file) == file \notin {"absent", "missing"}

\* A skip test that never skips.
SkipsExistingNever(skip, file) == FALSE

\* Lines 154-156 (and 88-89): skip_existing and the class output is there.
SkipsExisting(skip, file) == skip /\ Exists(file)

\* An open that succeeds whatever is at the path.
OpensAnything(file) == TRUE

\* gdal.Open / joblib's load of a path succeeds: the file is there and readable.
Opens(file) == file = "ok"

\* str(x) of a bool.
Str(b) == IF b THEN "True" ELSE "False"

\* Lines 88-91 of change_from_composite: skip_existing and the class output is there.
ChangeFromCompositeSkip ==
    /\ pc = "composite"
    /\ SkipsExisting(composite_call.skip_existing, class_file)
    /\ outcome' = "skipped"
    /\ pc' = "done"
    /\ UNCHANGED << inputs, image, image_array, good_indices, good_samples,
                    n_good_samples, classes, probs, chunk_size, chunk_resid, chunk_it,
                    chunks, outputs, store, layoutVars, trainingVars >>

\* Lines 92-93 and 102-106: the composite or the image is missing; log and return.
ChangeFromCompositeMissing ==
    /\ pc = "composite"
    /\ ~SkipsExisting(composite_call.skip_existing, class_file)
    /\ ~(Exists(composite_call.composite_file) /\ Exists(composite_call.image_file))
    /\ log' = log \cup { IF Exists(composite_call.composite_file)
                         THEN "File not found: image_path"
                         ELSE "File not found: composite_path" }
    /\ outcome' = "not classified"
    /\ pc' = "done"
    /\ UNCHANGED << inputs, image, image_array, good_indices, good_samples,
                    n_good_samples, classes, probs, chunk_size, chunk_resid, chunk_it,
                    chunks, outputs, class_file, prob_file, layoutVars, trainingVars >>

\* Lines 94-99: stack the two images and call classify_image on the stack, with
\* apply_mask and skip_existing as its fifth and sixth positional arguments:
\* skip_existing binds to out_format, and classify_image's skip_existing keeps its
\* default.
ChangeFromCompositeDelegate ==
    /\ pc = "composite"
    /\ ~SkipsExisting(composite_call.skip_existing, class_file)
    /\ Exists(composite_call.composite_file)
    /\ Exists(composite_call.image_file)
    /\ image_file' = "ok"
    /\ out_format' = Str(composite_call.skip_existing)
    /\ num_chunks' = DefaultNumChunks
    /\ nodata' = DefaultNoData
    /\ skip_existing' = FALSE
    /\ pc' = "start"
    /\ UNCHANGED << prob_out_path, model_file, has_n_classes, composite_call, image,
                    outcome, image_array, good_indices, good_samples, n_good_samples,
                    classes, probs, chunk_size, chunk_resid, chunk_it, chunks, outputs,
                    store, layoutVars, trainingVars >>

\* The GDAL drivers create_matching_dataset can write with.
Drivers == {"GTiff"}

\* Lines 154-158: skip_existing and the class output is there; return its path.
Skip ==
    /\ pc = "start"
    /\ SkipsExisting(skip_existing, class_file)
    /\ outcome' = "skipped"
    /\ pc' = "done"
    /\ UNCHANGED << inputs, image, image_array, good_indices, good_samples,
                    n_good_samples, classes, probs, chunk_size, chunk_resid, chunk_it,
                    chunks, outputs, store, layoutVars, trainingVars >>

\* The messages of lines 161-164.
NotFound ==
    (IF Exists(image_file) THEN {} ELSE {"File not found: image_path"})
        \cup (IF Exists(model_file) THEN {} ELSE {"File not found: model_path"})

\* The exception joblib's load leaves classify_image with (lines 174-181 catch
\* KeyError and TypeError alone, and load again).
ModelLoadError == IF model_file = "missing" THEN "FileNotFoundError" ELSE "UnpicklingError"

\* Lines 159-192: open the raster (RuntimeError: exit(1)), load the model, create the
\* output datasets (gdal.GetDriverByName gives None for a name that is no driver, and
\* the Create call on it raises AttributeError), read the pixels.
Load ==
    /\ pc = "start"
    /\ ~SkipsExisting(skip_existing, class_file)
    /\ IF ~Opens(image_file)
       THEN /\ outcome' = "SystemExit"
            /\ pc' = "done"
            /\ log' = log \cup NotFound
            /\ UNCHANGED << image, class_file, prob_file >>
       ELSE IF ~Opens(model_file)
       THEN /\ outcome' = ModelLoadError
            /\ pc' = "done"
            /\ log' = log \cup NotFound
            /\ UNCHANGED << image, class_file, prob_file >>
       ELSE IF out_format \notin Drivers
       THEN /\ outcome' = "AttributeError"
            /\ pc' = "done"
            /\ log' = log
            /\ UNCHANGED << image, class_file, prob_file >>
       ELSE IF prob_out_path /\ ~has_n_classes
       THEN /\ outcome' = "AttributeError"
            /\ pc' = "done"
            /\ class_file' = "created"
            /\ log' = log \cup {"Model has no n_classes_ attribute"}
            /\ UNCHANGED << image, prob_file >>
       ELSE /\ class_file' = "created"
            /\ prob_file' = IF prob_out_path THEN "created" ELSE prob_file
            /\ \E s \in Shapes : image' \in RastersOf(s, nodata)
            /\ pc' = "transform"
            /\ UNCHANGED << outcome, log >>
    /\ UNCHANGED << inputs, image_array, good_indices, good_samples, n_good_samples,
                    classes, probs, chunk_size, chunk_resid, chunk_it, chunks, outputs,
                    layoutVars, trainingVars >>

\* Lines 205-222: feature table, validity mask, good samples.
Transform ==
    /\ pc = "transform"
    /\ image_array' = reshape_raster_for_ml(image)
    /\ good_indices' = Where(ValidityMask(image_array', nodata))
    /\ good_samples' = Squeeze(Take(image_array', good_indices'))
    /\ IF IsError(PyLen(good_samples'))
       THEN /\ n_good_samples' = 0
            /\ outcome' = PyLen(good_samples').error
            /\ pc' = "done"
       ELSE /\ n_good_samples' = PyLen(good_samples').value
            /\ outcome' = outcome
            /\ pc' = "plan"
    /\ UNCHANGED << inputs, image, classes, probs, chunk_size, chunk_resid, chunk_it, chunks,
                    outputs, store, layoutVars, trainingVars >>

\* Lines 223-229: the output buffers and the chunk plan.
Plan ==
    /\ pc = "plan"
    /\ classes' = Full(<<n_good_samples>>, ToUByte(nodata))
    /\ probs' = IF prob_out_path
                THEN Full(<<n_good_samples, NClasses>>, ToFloat32(IntToFloat(nodata)))
                ELSE probs
    /\ IF num_chunks = 0
       THEN /\ outcome' = "ZeroDivisionError"
            /\ pc' = "done"
            /\ UNCHANGED << chunk_size, chunk_resid, chunk_it >>
       ELSE /\ chunk_size' = ChunkSize(n_good_samples, num_chunks)
            /\ chunk_resid' = ChunkResid(n_good_samples, chunk_size', num_chunks)
            /\ chunk_it' = 1
            /\ pc' = IF Len(ChunkRange(num_chunks)) = 0 THEN "scatter" ELSE "classify"
            /\ outcome' = outcome
    /\ UNCHANGED << inputs, image, image_array, good_indices, good_samples,
                    n_good_samples, chunks, outputs, store, layoutVars, trainingVars >>

\* The loop's current chunk: lines 231-235.
ChunkId == ChunkRange(num_chunks)[chunk_it]

Offset == ChunkId * chunk_size

SizeNow ==
    IF ChunkId = num_chunks - 1 THEN LastChunkSize(chunk_size, chunk_resid) ELSE chunk_size

ChunkView == Slice(good_samples, Offset, Offset + SizeNow)

Entered == [offset |-> Offset, size |-> SizeNow, input |-> ChunkView]

\* Lines 230-244, one iteration in which the model returns.
ClassifyChunk ==
    /\ pc = "classify"
    /\ chunk_size' = SizeNow
    /\ chunks' = Append(chunks, Entered)
    /\ classes' = AssignSlice(classes, Offset, Offset + SizeNow,
                              UByteAll(predict(ChunkView).data))
    /\ probs' = IF prob_out_path
                THEN AssignSlice(probs, Offset, Offset + SizeNow,
                                 Float32All(predict_proba(ChunkView).data))
                ELSE probs
    /\ chunk_it' = chunk_it + 1
    /\ pc' = IF chunk_it + 1 > Len(ChunkRange(num_chunks)) THEN "scatter" ELSE "classify"
    /\ UNCHANGED << inputs, image, outcome, image_array, good_indices, good_samples,
                    n_good_samples, chunk_resid, outputs, store, layoutVars, trainingVars >>

\* out_view[:] = values where values holds one row of `cols` elements: numpy
\* repeats the row over the n rows of the slice.
Broadcast(values, n, cols) == [i \in 1..(n * cols) |-> values[((i - 1) % cols) + 1]]

\* Lines 230-244, one iteration in which the model takes a 1-d input of as many
\* values as it has features for one sample, and returns one result.
ClassifyChunkAsOneSample ==
    /\ pc = "classify"
    /\ NDim(ChunkView) = 1
    /\ Len(ChunkView.data) = Bands
    /\ chunk_size' = SizeNow
    /\ chunks' = Append(chunks, Entered)
    /\ classes' = AssignSlice(classes, Offset, Offset + SizeNow,
                              Broadcast(UByteAll(predict(AsOneSample(ChunkView)).data),
                                        Len(ChunkView.data), 1))
    /\ probs' = IF prob_out_path
                THEN AssignSlice(probs, Offset, Offset + SizeNow,
                                 Broadcast(Float32All(predict_proba(AsOneSample(ChunkView)).data),
                                           Len(ChunkView.data), NClasses))
                ELSE probs
    /\ chunk_it' = chunk_it + 1
    /\ pc' = IF chunk_it + 1 > Len(ChunkRange(num_chunks)) THEN "scatter" ELSE "classify"
    /\ UNCHANGED << inputs, image, outcome, image_array, good_indices, good_samples,
                    n_good_samples, chunk_resid, outputs, store, layoutVars, trainingVars >>

\* Line 240, the model rejects an input that is not a 2-d array of at least one
\* sample: the exception leaves classify_image.
ClassifyChunkRaises ==
    /\ pc = "classify"
    /\ ~WellFormed(ChunkView)
    /\ chunk_size' = SizeNow
    /\ chunks' = Append(chunks, Entered)
    /\ outcome' = "ValueError"
    /\ pc' = "done"
    /\ UNCHANGED << inputs, image, image_array, good_indices, good_samples, n_good_samples,
                    classes, probs, chunk_resid, chunk_it, outputs, store, layoutVars, trainingVars >>

\* The raster array as the Byte dataset stores it.
WriteByte(raster) == Arr(raster.shape, UByteAll(raster.data))

\* The raster array as the Float32 dataset stores it.
WriteFloat32(raster) == Arr(raster.shape, Float32All(raster.data))

\* Lines 246-250: scatter the classes to the full-length buffer, write the raster.
Scatter ==
    /\ pc = "scatter"
    /\ class_out_array' =
           Arr(<<image_array.shape[1]>>,
               ZipScatter(Full(<<image_array.shape[1]>>, nodata).data, good_indices,
                          classes.data))
    /\ IF IsError(reshape_ml_out_to_raster(class_out_array', Width, Height))
       THEN /\ outcome' = "ValueError"
            /\ pc' = "done"
            /\ class_out' = class_out
       ELSE /\ class_out' = WriteByte(reshape_ml_out_to_raster(class_out_array', Width, Height))
            /\ outcome' = outcome
            /\ pc' = IF prob_out_path THEN "scatter_probs" ELSE "verify"
    /\ UNCHANGED << inputs, image, image_array, good_indices, good_samples, n_good_samples,
                    classes, probs, chunk_size, chunk_resid, chunk_it, chunks,
                    prob_out_array, prob_out, store, layoutVars, trainingVars >>

\* A store of a float32 row into a row of the int64 buffer.
RowToInt64(r) == [i \in 1..Len(r) |-> ToInt64(r[i])]

\* The rows of probs as the assignments of line 256 store them.
RowsToInt64(rows) == [i \in 1..Len(rows) |-> RowToInt64(rows[i])]

\* Lines 252-262: the same for the probabilities; prob_out_array is an integer buffer.
ScatterProbs ==
    /\ pc = "scatter_probs"
    /\ prob_out_array' =
           FromRows(ZipScatter(RowsOf(Full(<<image_array.shape[1], NClasses>>,
                                           IntToFloat(nodata))),
                               good_indices, RowsToInt64(RowsOf(probs))),
                    NClasses)
    /\ IF IsError(reshape_prob_out_to_raster(prob_out_array', Width, Height))
       THEN /\ outcome' = "ValueError"
            /\ pc' = "done"
            /\ prob_out' = prob_out
       ELSE /\ prob_out' = WriteFloat32(reshape_prob_out_to_raster(prob_out_array', Width, Height))
            /\ outcome' = outcome
            /\ pc' = "verify"
    /\ UNCHANGED << inputs, image, image_array, good_indices, good_samples, n_good_samples,
                    classes, probs, chunk_size, chunk_resid, chunk_it, chunks,
                    class_out_array, class_out, store, layoutVars, trainingVars >>

\* Lines 264-267: the datasets are closed; a file the backing store does not keep is
\* absent from here on.
LoseOutput ==
    /\ pc = "verify"
    /\ \/ /\ Exists(class_file)
          /\ class_file' = "absent"
          /\ UNCHANGED prob_file
       \/ /\ Exists(prob_file)
          /\ prob_file' = "absent"
          /\ UNCHANGED class_file
    /\ UNCHANGED << inputs, image, pc, outcome, image_array, good_indices, good_samples,
                    n_good_samples, classes, probs, chunk_size, chunk_resid, chunk_it,
                    chunks, outputs, log, layoutVars, trainingVars >>

\* Lines 268-278: verify the output file(s), return the path(s). sys is not imported
\* by the module, so sys.exit(1) ends the call with NameError.
Return ==
    /\ pc = "verify"
    /\ IF ~Exists(class_file)
       THEN /\ log' = log \cup {"File not found: class_out_path"}
            /\ outcome' = "NameError"
       ELSE IF prob_out_path /\ ~Exists(prob_file)
       THEN /\ log' = log \cup {"File not found: prob_out_path"}
            /\ outcome' = "NameError"
       ELSE /\ log' = log
            /\ outcome' = "returned"
    /\ pc' = "done"
    /\ UNCHANGED << inputs, image, image_array, good_indices, good_samples,
                    n_good_samples, classes, probs, chunk_size, chunk_resid, chunk_it,
                    chunks, outputs, class_file, prob_file, layoutVars, trainingVars >>

Next ==
    \/ ChangeFromCompositeSkip
    \/ ChangeFromCompositeMissing
    \/ ChangeFromCompositeDelegate
    \/ Skip
    \/ Load
    \/ Transform
    \/ Plan
    \/ ClassifyChunk
    \/ ClassifyChunkAsOneSample
    \/ ClassifyChunkRaises
    \/ Scatter
    \/ ScatterProbs
    \/ LoseOutput
    \/ Return

Spec == Init /\ [][Next]_vars

\* ---------------------------------------------------------------- layout transforms alone
\* An array of the given shape whose cells each hold a value of their own.
Numbered(shape) == Arr(shape, [c \in 1..Prod(shape) |-> 10 + c])

LayoutCalls ==
    { [fn |-> "reshape_raster_for_ml", image_array |-> r] :
          r \in UNION { RastersOf(s, 0) : s \in Shapes } }
    \cup
    { [fn |-> "reshape_ml_out_to_raster", classes |-> Numbered(<<n>>),
       width |-> w, height |-> h] :
          n \in 0..MaxPixels, w \in 0..MaxPixels, h \in 0..MaxPixels }
    \cup
    { [fn |-> "reshape_prob_out_to_raster", probs |-> Numbered(<<n, k>>),
       width |-> w, height |-> h] :
          n \in 0..MaxPixels, k \in 0..NClasses, w \in 0..MaxPixels, h \in 0..MaxPixels }

InitLayout ==
    /\ lt_call \in LayoutCalls
    /\ lt_result = Pending
    /\ image = Empty
    /\ nodata = 0
    /\ num_chunks = 1
    /\ prob_out_path = FALSE
    /\ skip_existing = FALSE
    /\ image_file = "ok"
    /\ model_file = "ok"
    /\ has_n_classes = TRUE
    /\ class_file = "absent"
    /\ out_format = DefaultOutFormat
    /\ composite_call = NoCall
    /\ pc = "idle"
    /\ Fresh
    /\ NoTraining

classifyVars ==
    << image, nodata, num_chunks, prob_out_path, pc, outcome, image_array, good_indices,
       good_samples, n_good_samples, classes, probs, chunk_size, chunk_resid, chunk_it,
       chunks, class_out_array, prob_out_array, class_out, prob_out, skip_existing,
       image_file, model_file, has_n_classes, class_file, prob_file, log, out_format,
       composite_call >>

CallReshapeRasterForMl ==
    /\ lt_call.fn = "reshape_raster_for_ml"
    /\ lt_result = Pending
    /\ lt_result' = reshape_raster_for_ml(lt_call.image_array)
    /\ UNCHANGED << lt_call, classifyVars, trainingVars >>

CallReshapeMlOutToRaster ==
    /\ lt_call.fn = "reshape_ml_out_to_raster"
    /\ lt_result = Pending
    /\ lt_result' = reshape_ml_out_to_raster(lt_call.classes, lt_call.width, lt_call.height)
    /\ UNCHANGED << lt_call, classifyVars, trainingVars >>

CallReshapeProbOutToRaster ==
    /\ lt_call.fn = "reshape_prob_out_to_raster"
    /\ lt_result = Pending
    /\ lt_result' = reshape_prob_out_to_raster(lt_call.probs, lt_call.width, lt_call.height)
    /\ UNCHANGED << lt_call, classifyVars, trainingVars >>

NextLayout ==
    \/ CallReshapeRasterForMl
    \/ CallReshapeMlOutToRaster
    \/ CallReshapeProbOutToRaster

SpecLayout == InitLayout /\ [][NextLayout]_vars

\* ---------------------------------------------------------------- autochunk
\* The result of a call that returns a value, and of one that falls off its end.
Value(v) == [value |-> v]

None == [none |-> TRUE]

\* A memory test that lets a chunk of exactly mem_limit bytes through.
FitsInclusive(chunk_size_bytes, mem_limit) == chunk_size_bytes <= mem_limit

\* Line 494: chunk_size_bytes < mem_limit
Fits(chunk_size_bytes, mem_limit) == chunk_size_bytes < mem_limit

\* Lines 490-495: the loop over range(1, pixels) from num_chunks on; None when the
\* loop ends without a return. pixels / num_chunks is exact where it is computed.
RECURSIVE AutochunkLoop(_, _, _, _)
AutochunkLoop(k, pixels, bytes_per_pixel, mem_limit) ==
    IF k >= pixels THEN None
    ELSE IF pixels % k # 0 THEN AutochunkLoop(k + 1, pixels, bytes_per_pixel, mem_limit)
    ELSE IF Fits((pixels \div k) * bytes_per_pixel, mem_limit) THEN Value(k)
    ELSE AutochunkLoop(k + 1, pixels, bytes_per_pixel, mem_limit)

\* Lines 485-488: int(available * 0.8), for the memory the host reports as available.
DefaultMemLimit(available) == (available * 8) \div 10

\* autochunk(dataset, mem_limit) with a mem_limit that is given (not None, not 0).
autochunk(dataset, mem_limit) ==
    LET pixels == dataset.RasterXSize * dataset.RasterYSize
        bytes_per_pixel == dataset.itemsize * dataset.RasterCount
    IN  AutochunkLoop(1, pixels, bytes_per_pixel, mem_limit)

\* The sizes in bytes of a pixel value of one band.
ItemSizes == {1, 2, 4}

Datasets ==
    { [RasterXSize |-> x, RasterYSize |-> y, RasterCount |-> b, itemsize |-> i] :
          x \in 1..MaxSide, y \in 1..MaxSide, b \in 1..MaxBands, i \in ItemSizes }

\* mem_limit 0 stands for the default None as well: line 485 tests `not mem_limit`.
AutochunkCalls ==
    { [fn |-> "autochunk", dataset |-> d, mem_limit |-> m] :
          d \in Datasets, m \in 0..MaxMemLimit }

InitAutochunk ==
    /\ lt_call \in AutochunkCalls
    /\ lt_result = Pending
    /\ image = Empty
    /\ nodata = 0
    /\ num_chunks = 1
    /\ prob_out_path = FALSE
    /\ skip_existing = FALSE
    /\ image_file = "ok"
    /\ model_file = "ok"
    /\ has_n_classes = TRUE
    /\ class_file = "absent"
    /\ out_format = DefaultOutFormat
    /\ composite_call = NoCall
    /\ pc = "idle"
    /\ Fresh
    /\ NoTraining

CallAutochunk ==
    /\ lt_call.fn = "autochunk"
    /\ lt_result = Pending
    /\ IF lt_call.mem_limit = 0
       THEN \E available \in 1..MaxMemLimit :
                lt_result' = autochunk(lt_call.dataset, DefaultMemLimit(available))
       ELSE lt_result' = autochunk(lt_call.dataset, lt_call.mem_limit)
    /\ UNCHANGED << lt_call, classifyVars, trainingVars >>

NextAutochunk == CallAutochunk

SpecAutochunk == InitAutochunk /\ [][NextAutochunk]_vars

\* ---------------------------------------------------------------- signature extraction
\* A geotransform is GDAL's 6-tuple: pixel (row, col) has its corner at
\* x = gt[1] + col * gt[2] + row * gt[3], y = gt[4] + col * gt[5] + row * gt[6]
\* (1-based here). Coordinates of points are held doubled, so that pixel centres
\* are integers.
GeoTransforms == { <<0, 2, 0, 20, 0, 0 - 2>> }

\* The centre of pixel (row, col) of a grid with geotransform gt, doubled.
PixelCentre(gt, row, col) ==
    << 2 * gt[1] + (2 * col + 1) * gt[2] + (2 * row + 1) * gt[3],
       2 * gt[4] + (2 * col + 1) * gt[5] + (2 * row + 1) * gt[6] >>

\* The box (doubled coordinates) that pixel (row, col) of a north-up grid covers.
Footprint(gt, row, col) ==
    [x_lo |-> 2 * (gt[1] + col * gt[2]), x_hi |-> 2 * (gt[1] + (col + 1) * gt[2]),
     y_lo |-> 2 * (gt[4] + (row + 1) * gt[6]), y_hi |-> 2 * (gt[4] + row * gt[6])]

Covers(box, p) ==
    /\ box.x_lo < p[1] /\ p[1] < box.x_hi
    /\ box.y_lo < p[2] /\ p[2] < box.y_hi

\* Lines 993-1001: the geotransform shapefile_to_raster gives the label raster.
TargetGeoTransform(image_gt, RasterYSize) ==
    LET x_min == image_gt[1]
        y_max == image_gt[4]
        y_min == y_max + image_gt[6] * RasterYSize
        pixel_width == image_gt[2]
    IN  << x_min, pixel_width, 0, y_min, 0, pixel_width >>

\* Line 1005: the attribute field whose values are burned, options=["ATTRIBUTE=CLASS"].
BurnField(attribute) == "CLASS"

\* The last polygon of the layer that covers the point p, 0 if none does:
\* gdal.RasterizeLayer burns the features in layer order over a grid of zeros.
LastCovering(polygons, p) ==
    IF \E i \in 1..Len(polygons) : Covers(polygons[i].box, p)
    THEN CHOOSE i \in 1..Len(polygons) :
             /\ Covers(polygons[i].box, p)
             /\ \A j \in 1..Len(polygons) : Covers(polygons[j].box, p) => j <= i
    ELSE 0

\* Lines 1000-1005: a one-band grid of y_res rows and x_res columns with the
\* geotransform gt, each pixel holding the field value of the polygon over its centre.
RasterizeLayer(gt, y_res, x_res, polygons, field) ==
    Arr(<<y_res, x_res>>,
        [n \in 1..(y_res * x_res) |->
            LET i == LastCovering(polygons, PixelCentre(gt, (n - 1) \div x_res, (n - 1) % x_res))
            IN  IF i = 0 THEN 0 ELSE polygons[i].values[field]])

\* sp.coo_matrix(a): a dense argument goes through np.atleast_2d.
CooMatrix(a) ==
    IF NDim(a) = 0 THEN Arr(<<1, 1>>, a.data)
    ELSE IF NDim(a) = 1 THEN Arr(<<1, a.shape[1]>>, a.data)
    ELSE a

\* sp.find(m): the (row, column, value) triples of the non-zero entries, row by row.
RECURSIVE FindFrom(_, _)
FindFrom(m, n) ==
    IF n > Len(m.data) THEN <<>>
    ELSE (IF m.data[n] # 0
          THEN << << (n - 1) \div m.shape[2], (n - 1) % m.shape[2], m.data[n] >> >>
          ELSE <<>>) \o FindFrom(m, n + 1)

Find(m) == FindFrom(m, 1)

\* Lines 876-881: image_view[:, y, x] of the view image_array[:, 0:ysize, 0:xsize];
\* IndexError when y or x is outside the view.
ViewAt(image_array_3d, ysize, xsize, y, x) ==
    IF y < Min(ysize, image_array_3d.shape[2]) /\ x < Min(xsize, image_array_3d.shape[3])
    THEN [value |-> [b \in 1..image_array_3d.shape[1] |-> At3(image_array_3d, b - 1, y, x)]]
    ELSE Raised("IndexError")

\* Lines 866-887: the training table of a raster and a rasterised shapefile.
TrainingTable(image_array_3d, shape_array) ==
    LET found == Find(CooMatrix(Squeeze(shape_array)))
        rows == [i \in 1..Len(found) |->
                    ViewAt(image_array_3d, shape_array.shape[1], shape_array.shape[2],
                           found[i][1], found[i][2])]
    IN  IF \E i \in 1..Len(found) : IsError(rows[i])
        THEN Raised("IndexError")
        ELSE [training_data |-> FromRows([i \in 1..Len(found) |-> rows[i].value],
                                         image_array_3d.shape[1]),
              features |-> [i \in 1..Len(found) |-> found[i][3]]]

\* The attribute values of a polygon of the shapefile.
FieldValues == { [CODE |-> 1, CLASS |-> 3], [CODE |-> 2, CLASS |-> 0] }

\* The polygons over a raster: each covers the footprint of one of its pixels.
PolygonsOver(gt, s) ==
    { [box |-> Footprint(gt, r, c), values |-> v] :
          r \in 0..(s[2] - 1), c \in 0..(s[3] - 1), v \in FieldValues }

RECURSIVE SeqsUpTo(_, _)
SeqsUpTo(S, n) ==
    IF n = 0 THEN {<<>>}
    ELSE LET shorter == SeqsUpTo(S, n - 1)
         IN  shorter \cup { Append(q, e) : q \in shorter, e \in S }

\* The calls of get_training_data with both files there: the raster, the shapefile
\* with polygons over it, and the attribute asked for.
CallsOn(g, s) ==
    { [fn |-> "get_training_data", image_file |-> "ok", shape_file |-> "ok",
       attribute |-> a, image |-> [gt |-> g, array |-> Numbered(s)],
       shapefile |-> [fields |-> f, polygons |-> p]] :
          a \in {"CODE", "CLASS"}, f \in {{"CODE"}, {"CODE", "CLASS"}},
          p \in SeqsUpTo(PolygonsOver(g, s), MaxPolygons) }

\* The calls with a path at which there is nothing.
CallsOnMissing ==
    { c \in [fn : {"get_training_data"}, image_file : {"ok", "missing"},
             shape_file : {"ok", "missing"}, attribute : {"CODE", "CLASS"},
             image : {NoFile}, shapefile : {NoFile}] :
          c.image_file = "missing" \/ c.shape_file = "missing" }

InitTraining ==
    /\ \/ lt_call \in CallsOnMissing
       \/ \E g \in GeoTransforms, s \in Shapes : lt_call \in CallsOn(g, s)
    /\ lt_result = Pending
    /\ image = Empty
    /\ nodata = 0
    /\ num_chunks = 1
    /\ prob_out_path = FALSE
    /\ skip_existing = FALSE
    /\ image_file = "ok"
    /\ model_file = "ok"
    /\ has_n_classes = TRUE
    /\ class_file = "absent"
    /\ out_format = DefaultOutFormat
    /\ composite_call = NoCall
    /\ pc = "check"
    /\ Fresh
    /\ NoTraining

\* The variables the signature extraction leaves alone.
trainingFrame ==
    << image, nodata, num_chunks, prob_out_path, image_array, good_indices, good_samples,
       n_good_samples, classes, probs, chunk_size, chunk_resid, chunk_it, chunks,
       class_out_array, prob_out_array, class_out, prob_out, skip_existing, image_file,
       model_file, has_n_classes, class_file, prob_file, out_format, composite_call,
       csv_file, lt_call >>

\* A with block that leaves its directory behind.
CleanupSkipped(dirs, d) == dirs

\* The end of a `with TemporaryDirectory() as td:` block, by return or by exception:
\* the directory is removed.
Cleanup(dirs, d) == dirs \ {d}

\* Lines 850-861 of get_training_data: a path at which there is nothing is logged and
\* sys.exit(1) is called (NameError: the module does not import sys); else the
\* temporary directory is made.
GetTrainingDataEnter ==
    /\ pc = "check"
    /\ lt_call.fn = "get_training_data"
    /\ IF ~Exists(lt_call.image_file)
       THEN /\ log' = log \cup {"image_path not found."}
            /\ outcome' = "NameError"
            /\ pc' = "done"
            /\ UNCHANGED << tempdirs, tempdirs_made >>
       ELSE IF ~Exists(lt_call.shape_file)
       THEN /\ log' = log \cup {"shape_path not found."}
            /\ outcome' = "NameError"
            /\ pc' = "done"
            /\ UNCHANGED << tempdirs, tempdirs_made >>
       ELSE /\ tempdirs' = tempdirs \cup {"get_training_data"}
            /\ tempdirs_made' = tempdirs_made \cup {"get_training_data"}
            /\ pc' = "rasterise"
            /\ UNCHANGED << log, outcome >>
    /\ UNCHANGED << trainingFrame, lt_result, shape_raster >>

\* Line 862, the whole of shapefile_to_raster (lines 983-1013): in a temporary
\* directory of its own, burn the layer into a grid of the raster's size and move the
\* file to outraster_filename. gdal.RasterizeLayer raises RuntimeError for a layer
\* without the field; the exception leaves both with blocks, which remove their
\* directories.
ShapefileToRaster ==
    /\ pc = "rasterise"
    /\ tempdirs_made' = tempdirs_made \cup {"shapefile_to_raster"}
    /\ IF BurnField(lt_call.attribute) \notin lt_call.shapefile.fields
       THEN /\ outcome' = "RuntimeError"
            /\ pc' = "done"
            /\ tempdirs' = Cleanup(Cleanup(tempdirs \cup {"shapefile_to_raster"},
                                           "shapefile_to_raster"),
                                   "get_training_data")
            /\ UNCHANGED shape_raster
       ELSE /\ shape_raster' =
                   [gt |-> TargetGeoTransform(lt_call.image.gt,
                                              lt_call.image.array.shape[2]),
                    array |-> RasterizeLayer(
                                  TargetGeoTransform(lt_call.image.gt,
                                                     lt_call.image.array.shape[2]),
                                  lt_call.image.array.shape[2],
                                  lt_call.image.array.shape[3],
                                  lt_call.shapefile.polygons,
                                  BurnField(lt_call.attribute))]
            /\ tempdirs' = Cleanup(tempdirs \cup {"shapefile_to_raster"},
                                   "shapefile_to_raster")
            /\ pc' = "extract"
            /\ UNCHANGED outcome
    /\ UNCHANGED << trainingFrame, lt_result, log >>

\* The result of lines 863-887 for a training table or the exception in its place.
Extracted(table) == IF IsError(table) THEN Pending ELSE Value(table)

\* Lines 863-887: find the labelled cells, copy their band vectors, return; the with
\* block removes the temporary directory on the way out.
Extract ==
    /\ pc = "extract"
    /\ lt_result' = Extracted(TrainingTable(lt_call.image.array, shape_raster.array))
    /\ outcome' = IF lt_result' = Pending THEN "IndexError" ELSE "returned"
    /\ tempdirs' = Cleanup(tempdirs, "get_training_data")
    /\ pc' = "done"
    /\ UNCHANGED << trainingFrame, log, tempdirs_made, shape_raster >>

NextTraining ==
    \/ GetTrainingDataEnter
    \/ ShapefileToRaster
    \/ Extract

SpecTraining == InitTraining /\ [][NextTraining]_vars

\* ---------------------------------------------------------------- signature CSV
\* The characters of a decimal number; "CR" and "LF" stand for the two characters of
\* csv.writer's line terminator.
Digits == << "0", "1", "2", "3", "4", "5", "6", "7", "8", "9" >>

\* str(n) of an integer n >= 0.
RECURSIVE DecimalDigits(_)
DecimalDigits(n) ==
    IF n < 10 THEN << Digits[n + 1] >>
    ELSE Append(DecimalDigits(n \div 10), Digits[(n % 10) + 1])

\* str(numpy.float64(v)) of a whole number v. training_data is float64 (np.empty,
\* line 874) and np.vstack promotes the labels to it, so csv.writer writes every
\* field as a float.
FloatStr(v) ==
    (IF v < 0 THEN << "-" >> ELSE << >>)
        \o DecimalDigits(IF v < 0 THEN 0 - v ELSE v) \o << ".", "0" >>

\* Line 642: np.vstack((this_classes, this_training_data.T)).T, as its rows.
Sigs(this_training_data, this_classes) ==
    [i \in 1..this_training_data.shape[1] |->
        << this_classes[i] >> \o Row(this_training_data, i - 1)]

\* ",".join(fields)
RECURSIVE JoinFields(_)
JoinFields(fields) ==
    IF Len(fields) = 0 THEN << >>
    ELSE IF Len(fields) = 1 THEN fields[1]
    ELSE fields[1] \o << "," >> \o JoinFields(Tail(fields))

\* csv.writer(outfile).writerow(row), the file opened with newline=''.
WriteRow(row) == JoinFields([j \in 1..Len(row) |-> FloatStr(row[j])]) \o << "CR", "LF" >>

\* Line 645: writer.writerows(sigs.T)
RECURSIVE WriteRows(_)
WriteRows(rows) ==
    IF Len(rows) = 0 THEN << >> ELSE WriteRow(Head(rows)) \o WriteRows(Tail(rows))

\* text.split(sep)
RECURSIVE SplitOn(_, _)
SplitOn(text, sep) ==
    IF \A i \in 1..Len(text) : text[i] # sep THEN << text >>
    ELSE LET i == CHOOSE i \in 1..Len(text) :
                      text[i] = sep /\ \A j \in 1..(i - 1) : text[j] # sep
         IN  << SubSeq(text, 1, i - 1) >> \o SplitOn(SubSeq(text, i + 1, Len(text)), sep)

\* The lines np.genfromtxt reads: the text split at its line ends, the line ends
\* stripped, empty lines skipped.
TextLines(text) ==
    SelectSeq([i \in 1..Len(SplitOn(text, "LF")) |->
                  SelectSeq(SplitOn(text, "LF")[i], LAMBDA c : c # "CR")],
              LAMBDA line : Len(line) > 0)

DigitValue(c) == CHOOSE d \in 0..9 : Digits[d + 1] = c

RECURSIVE DigitsValue(_)
DigitsValue(ds) ==
    IF Len(ds) = 0 THEN 0
    ELSE DigitsValue(SubSeq(ds, 1, Len(ds) - 1)) * 10 + DigitValue(ds[Len(ds)])

\* genfromtxt's converter for an integer dtype that is not 64 bits wide,
\* int(float(x)): the number is read as a float and truncated toward zero.
IntOfFloat(field) ==
    LET neg == Len(field) > 0 /\ field[1] = "-"
        body == IF neg THEN Tail(field) ELSE field
        whole == DigitsValue(SplitOn(body, ".")[1])
    IN  IF neg THEN 0 - whole ELSE whole

ParseLine(line) ==
    [j \in 1..Len(SplitOn(line, ",")) |-> IntOfFloat(SplitOn(line, ",")[j])]

\* np.genfromtxt(path, delimiter=",", dtype=np.int32) of a file with at least one
\* line, all lines of one length: the table of the parsed fields, squeezed (ndmin
\* is 0), so a file of one line gives a 1-d array.
genfromtxt(text) ==
    Squeeze(FromRows([i \in 1..Len(TextLines(text)) |-> ParseLine(TextLines(text)[i])],
                     Len(ParseLine(TextLines(text)[1]))))

\* data.T
T(a) == IF NDim(a) = 2 THEN Transpose2(a) ELSE a

\* data[1:, :].T and data[0, :] of line 814; IndexError for an array of fewer than
\* two dimensions.
SplitSignatures(data) ==
    IF NDim(data) < 2 THEN Raised("IndexError")
    ELSE Value([features |-> T(Slice(data, 1, data.shape[1])),
                class_labels |-> Arr(<< data.shape[2] >>, Row(data, 0))])

\* Lines 813-814.
load_signatures(text) == SplitSignatures(T(genfromtxt(text)))

\* The values a band holds in a training table, and the labels of its samples
\* (sp.find leaves no label 0).
BandValues == { 0 - 3, 120 }

LabelValues == { 1, 10 }

\* The calls of extract_features_to_csv by the pair that get_training_data returns
\* to it: n samples of b bands.
CsvCallsOf(n, b) ==
    { [fn |-> "extract_features_to_csv", this_training_data |-> Arr(<< n, b >>, d),
       this_classes |-> c] :
          d \in [1..(n * b) -> BandValues], c \in [1..n -> LabelValues] }

InitSignatures ==
    /\ \E n \in 1..MaxSamples, b \in 1..MaxBands : lt_call \in CsvCallsOf(n, b)
    /\ lt_result = Pending
    /\ image = Empty
    /\ nodata = 0
    /\ num_chunks = 1
    /\ prob_out_path = FALSE
    /\ skip_existing = FALSE
    /\ image_file = "ok"
    /\ model_file = "ok"
    /\ has_n_classes = TRUE
    /\ class_file = "absent"
    /\ out_format = DefaultOutFormat
    /\ composite_call = NoCall
    /\ pc = "write"
    /\ Fresh
    /\ NoTraining

\* The variables the signature CSV functions leave alone.
signaturesFrame ==
    << image, nodata, num_chunks, prob_out_path, image_array, good_indices, good_samples,
       n_good_samples, classes, probs, chunk_size, chunk_resid, chunk_it, chunks,
       class_out_array, prob_out_array, class_out, prob_out, skip_existing, image_file,
       model_file, has_n_classes, class_file, prob_file, log, out_format, composite_call,
       tempdirs, tempdirs_made, shape_raster, lt_call >>

\* Lines 642-645 of extract_features_to_csv, on the pair line 641 got from
\* get_training_data: stack the labels over the bands and write the rows.
ExtractFeaturesToCsv ==
    /\ pc = "write"
    /\ lt_call.fn = "extract_features_to_csv"
    /\ csv_file' = WriteRows(Sigs(lt_call.this_training_data, lt_call.this_classes))
    /\ pc' = "load"
    /\ UNCHANGED << signaturesFrame, outcome, lt_result >>

\* load_signatures (lines 813-814) on the file written.
LoadSignatures ==
    /\ pc = "load"
    /\ IF IsError(load_signatures(csv_file))
       THEN /\ outcome' = load_signatures(csv_file).error
            /\ UNCHANGED lt_result
       ELSE /\ outcome' = "returned"
            /\ lt_result' = load_signatures(csv_file)
    /\ pc' = "done"
    /\ UNCHANGED << signaturesFrame, csv_file >>

NextSignatures ==
    \/ ExtractFeaturesToCsv
    \/ LoadSignatures

SpecSignatures == InitSignatures /\ [][NextSignatures]_vars

\* ---------------------------------------------------------------- properties
\* A standalone layout call has returned.
Returned(fn) == lt_call.fn = fn /\ "pending" \notin DOMAIN lt_result

\* Pixel (row, col) of the input raster holds data in every band.
ValidPixel(row, col) == \A b \in 0..(Bands - 1) : At3(image, b, row, col) # nodata

\* The band vector of pixel (row, col) of the input raster.
BandVector(row, col) == [b \in 1..Bands |-> At3(image, b - 1, row, col)]

\* classify_image is past line 222 / past line 229 / past the loop.
Transformed == pc \in {"plan", "classify", "scatter", "scatter_probs", "verify"}
                  \/ (pc = "done" /\ outcome \in {"returned", "ValueError", "NameError"})

Planned == Transformed /\ pc # "plan"

LoopDone == pc \in {"scatter", "scatter_probs", "verify"}
                \/ outcome \in {"returned", "NameError"}

RECURSIVE SumSizes(_)
SumSizes(cs) == IF Len(cs) = 0 THEN 0 ELSE Head(cs).size + SumSizes(Tail(cs))

\* C5: reshape_raster_for_ml(r) of a raster r of shape (bands, height, width) has
\* shape (height*width, bands), and its row i is the band vector
\* r[:, i div width, i mod width], features in band order.
C5_FeatureTableRows ==
    Returned("reshape_raster_for_ml") =>
        LET r == lt_call.image_array
            bands == r.shape[1]
            height == r.shape[2]
            width == r.shape[3]
        IN  /\ ~IsError(lt_result)
            /\ lt_result.shape = <<height * width, bands>>
            /\ \A i \in 0..(height * width - 1), b \in 0..(bands - 1) :
                   At2(lt_result, i, b) = At3(r, b, i \div width, i % width)

C5_Witness ==
    /\ Returned("reshape_raster_for_ml")
    /\ lt_call.image_array.shape = <<2, 2, 2>>
    /\ At2(lt_result, 2, 1) = At3(lt_call.image_array, 1, 1, 0)

\* C6: reshape_prob_out_to_raster(probs, width, height) of a table of shape
\* (height*width, class_count) has shape (class_count, height, width), and its
\* element (k, row, col) is probs[row*width + col][k].
C6_ProbRasterLayout ==
    (Returned("reshape_prob_out_to_raster")
        /\ lt_call.probs.shape[1] = lt_call.height * lt_call.width) =>
        LET table == lt_call.probs
            class_count == table.shape[2]
            height == lt_call.height
            width == lt_call.width
        IN  /\ ~IsError(lt_result)
            /\ lt_result.shape = <<class_count, height, width>>
            /\ \A k \in 0..(class_count - 1), row \in 0..(height - 1),
                  col \in 0..(width - 1) :
                   At3(lt_result, k, row, col) = At2(table, row * width + col, k)

C6_Witness ==
    /\ Returned("reshape_prob_out_to_raster")
    /\ lt_call.probs.shape = <<4, 2>>
    /\ lt_call.height = 2
    /\ lt_call.width = 2
    /\ ~IsError(lt_result)
    /\ At3(lt_result, 1, 1, 0) = At2(lt_call.probs, 2, 1)

\* C7: reshape_ml_out_to_raster and reshape_prob_out_to_raster end in a shape error
\* (numpy's ValueError) and return no array whenever the input's element count differs
\* from width*height, respectively width*height*class_count.
C7_ShapeMismatchRaises ==
    /\ (Returned("reshape_ml_out_to_raster")
           /\ Len(lt_call.classes.data) # lt_call.width * lt_call.height)
          => lt_result = Raised("ValueError")
    /\ (Returned("reshape_prob_out_to_raster")
           /\ Len(lt_call.probs.data)
                  # lt_call.width * lt_call.height * lt_call.probs.shape[2])
          => lt_result = Raised("ValueError")

C7_Witness ==
    /\ Returned("reshape_ml_out_to_raster")
    /\ Len(lt_call.classes.data) = 3
    /\ lt_call.width = 2
    /\ lt_call.height = 1
    /\ lt_result = Raised("ValueError")

\* C4: sample i is in good_indices if and only if every band of row i of the feature
\* table differs from the no-data value, and good_indices is in ascending order.
C4_MaskAllBands ==
    Transformed =>
        /\ \A i \in 0..(image_array.shape[1] - 1) :
               (\E j \in 1..Len(good_indices) : good_indices[j] = i)
                   <=> (\A b \in 0..(image_array.shape[2] - 1) :
                            At2(image_array, i, b) # nodata)
        /\ \A j \in 1..Len(good_indices) : good_indices[j] \in 0..(image_array.shape[1] - 1)
        /\ \A j \in 1..(Len(good_indices) - 1) : good_indices[j] < good_indices[j + 1]

C4_Witness ==
    /\ Transformed
    /\ image_array.shape = <<4, 2>>
    /\ At2(image_array, 1, 0) # nodata
    /\ At2(image_array, 1, 1) = nodata
    /\ good_indices = <<0, 2, 3>>

\* C8: for num_chunks >= 1 the chunks the loop enters are contiguous from offset 0,
\* and once the loop is over there are num_chunks of them, they end at
\* n_good_samples and their sizes sum to n_good_samples.
C8_ChunksTile ==
    (Planned /\ num_chunks >= 1) =>
        /\ Len(chunks) > 0 => chunks[1].offset = 0
        /\ \A k \in 1..Len(chunks) : chunks[k].size >= 0
        /\ \A k \in 1..(Len(chunks) - 1) :
               chunks[k + 1].offset = chunks[k].offset + chunks[k].size
        /\ LoopDone =>
               /\ Len(chunks) = num_chunks
               /\ chunks[Len(chunks)].offset + chunks[Len(chunks)].size = n_good_samples
               /\ SumSizes(chunks) = n_good_samples

C8_Witness ==
    /\ LoopDone
    /\ num_chunks = 3
    /\ n_good_samples = 4
    /\ Len(chunks) = 3

\* C9: each chunk before the last has size floor(n_good_samples / num_chunks) and
\* offset chunk_id * floor(n_good_samples / num_chunks); the last chunk has size
\* floor(n_good_samples / num_chunks) + (n_good_samples mod num_chunks).
C9_ChunkSizes ==
    (Planned /\ num_chunks >= 1) =>
        \A k \in 1..Len(chunks) :
            IF k < num_chunks
            THEN /\ chunks[k].size = n_good_samples \div num_chunks
                 /\ chunks[k].offset = (k - 1) * (n_good_samples \div num_chunks)
            ELSE chunks[k].size
                     = (n_good_samples \div num_chunks) + (n_good_samples % num_chunks)

C9_Witness ==
    /\ LoopDone
    /\ num_chunks = 2
    /\ n_good_samples = 3
    /\ chunks[1].size = 1
    /\ chunks[2].size = 2

C1_ClassRaster ==
    (outcome = "returned" /\ num_chunks >= 1) =>
        /\ class_out.shape = <<Height, Width>>
        /\ \A row \in 0..(Height - 1), col \in 0..(Width - 1) :
               At2(class_out, row, col)
                   = IF ValidPixel(row, col)
                     THEN PredictRow(BandVector(row, col))
                     ELSE nodata

\* C2: when classify_image, called with num_chunks >= 1, returns from a full run
\* with a probability output, the probability raster holds at (k, row, col) the k-th
\* probability the model gives the band vector of a valid pixel, unaltered, and the
\* no-data value for an invalid pixel.
C2_ProbRaster ==
    (outcome = "returned" /\ num_chunks >= 1 /\ prob_out_path) =>
        /\ prob_out.shape = <<NClasses, Height, Width>>
        /\ \A k \in 0..(NClasses - 1), row \in 0..(Height - 1), col \in 0..(Width - 1) :
               At3(prob_out, k, row, col)
                   = IF ValidPixel(row, col)
                     THEN ProbaRow(BandVector(row, col))[k + 1]
                     ELSE IntToFloat(nodata)

\* C3: a raster without any valid pixel is classified without an exception: a run
\* with num_chunks >= 1 that has read the raster and keeps its output files ends by
\* returning, with the class raster (and the probability raster, if asked for)
\* filled with the no-data value.
C3_NoValidPixelCompletes ==
    (pc = "done" /\ image # Empty /\ num_chunks >= 1 /\ outcome # "NameError"
        /\ \A row \in 0..(Height - 1), col \in 0..(Width - 1) : ~ValidPixel(row, col)) =>
        /\ outcome = "returned"
        /\ class_out = Full(<<Height, Width>>, nodata)
        /\ prob_out_path => prob_out = Full(<<NClasses, Height, Width>>, IntToFloat(nodata))

C17_SkipTouchesNothing ==
    [][ ((pc = "start" /\ skip_existing /\ class_file # "absent")
            \/ (pc = "composite" /\ composite_call.skip_existing
                   /\ class_file # "absent"))
          => /\ outcome' = "skipped"
             /\ pc' = "done"
             /\ UNCHANGED << image, image_array, chunks, classes, probs, class_file,
                             prob_file, class_out, prob_out >> ]_vars

C17_Witness ==
    /\ outcome = "skipped"
    /\ composite_call = NoCall
    /\ skip_existing
    /\ class_file = "old"
    /\ image = Empty
    /\ chunks = <<>>

\* C18: a call of classify_image that gets to its load step with a raster or a model
\* file that is missing or unreadable ends in an error (exit(1) or the exception of
\* the load), with a missing file logged, before an output dataset is created and
\* before the model is invoked; it never returns its output path.
C18_LoadFailsFast ==
    (image_file # "ok" \/ model_file # "ok") =>
        /\ outcome # "returned"
        /\ class_file # "created"
        /\ prob_file = "absent"
        /\ image = Empty
        /\ chunks = <<>>
        /\ (pc = "done" /\ outcome \notin {"skipped", "not classified"}) =>
               /\ outcome \in {"SystemExit", "FileNotFoundError", "UnpicklingError"}
               /\ image_file = "missing" => "File not found: image_path" \in log
               /\ model_file = "missing" => "File not found: model_path" \in log

C18_Witness ==
    /\ pc = "done"
    /\ image_file = "ok"
    /\ model_file = "missing"
    /\ outcome = "FileNotFoundError"
    /\ class_file = "absent"

\* C19: a model without n_classes_ and a probability output asked for: classify_image
\* does not end in an error (the AttributeError of the missing attribute).
C19_MissingClassCountAbsorbed ==
    (prob_out_path /\ ~has_n_classes /\ out_format \in Drivers)
        => outcome # "AttributeError"

\* C20: a run of classify_image that has written its rasters and finds the class
\* output file, or the probability output file asked for, absent ends in a logged
\* error and does not return; and whenever it returns from a full run, the class
\* output file and the probability output file asked for are there.
C20_VerifiedOutputs ==
    /\ outcome = "returned" =>
           /\ class_file # "absent"
           /\ prob_out_path => prob_file # "absent"
    /\ (pc = "done" /\ class_out # Empty /\ (prob_out_path => prob_out # Empty)
           /\ (class_file = "absent" \/ (prob_out_path /\ prob_file = "absent"))) =>
           /\ outcome = "NameError"
           /\ \/ "File not found: class_out_path" \in log
              \/ "File not found: prob_out_path" \in log

C20_Witness ==
    /\ pc = "done"
    /\ outcome = "NameError"
    /\ prob_out_path
    /\ class_file = "created"
    /\ prob_file = "absent"
    /\ "File not found: prob_out_path" \in log

\* C12: a chunk count k that autochunk returns for a positive mem_limit divides the
\* pixel count, keeps (pixels / k) * bytes_per_pixel below mem_limit, and is the
\* smallest positive integer that does both.
C12_SmallestFittingDivisor ==
    (Returned("autochunk") /\ lt_call.mem_limit > 0 /\ "value" \in DOMAIN lt_result) =>
        LET k == lt_result.value
            pixels == lt_call.dataset.RasterXSize * lt_call.dataset.RasterYSize
            bytes_per_pixel == lt_call.dataset.itemsize * lt_call.dataset.RasterCount
            good(j) == pixels % j = 0 /\ (pixels \div j) * bytes_per_pixel < lt_call.mem_limit
        IN  /\ k >= 1
            /\ good(k)
            /\ \A j \in 1..(k - 1) : ~good(j)

C12_Witness ==
    /\ Returned("autochunk")
    /\ lt_call.dataset = [RasterXSize |-> 3, RasterYSize |-> 4, RasterCount |-> 2,
                          itemsize |-> 2]
    /\ lt_call.mem_limit = 12
    /\ lt_result = Value(6)

\* The cells of the rasterised shapefile that hold a label.
LabelledCells ==
    { rc \in (0..(shape_raster.array.shape[1] - 1)) \X (0..(shape_raster.array.shape[2] - 1)) :
          At2(shape_raster.array, rc[1], rc[2]) # 0 }

\* The band vector of pixel (row, col) of the raster get_training_data is called on.
TrainingBandVector(row, col) ==
    [b \in 1..lt_call.image.array.shape[1] |-> At3(lt_call.image.array, b - 1, row, col)]

\* The box (doubled coordinates) that pixel (row, col) of a grid with geotransform gt
\* covers, whichever way its rows run.
CellBox(gt, row, col) ==
    LET x0 == 2 * (gt[1] + col * gt[2])
        x1 == 2 * (gt[1] + (col + 1) * gt[2])
        y0 == 2 * (gt[4] + row * gt[6])
        y1 == 2 * (gt[4] + (row + 1) * gt[6])
    IN  [x_lo |-> Min(x0, x1), x_hi |-> Max(x0, x1), y_lo |-> Min(y0, y1), y_hi |-> Max(y0, y1)]

\* C13: once the shapefile is rasterised, get_training_data returns a table with one
\* row per non-zero cell of the label grid and no other: the row of cell (row, col)
\* has the raster's band vector at (row, col) and the grid's value there; no label
\* is 0.
C13_RowPerLabelledCell ==
    (pc = "done" /\ shape_raster # NoFile) =>
        /\ outcome = "returned"
        /\ Len(lt_result.value.features) = Cardinality(LabelledCells)
        /\ \A i \in 1..Len(lt_result.value.features) : lt_result.value.features[i] # 0
        /\ \A rc \in LabelledCells :
               \E i \in 1..Len(lt_result.value.features) :
                   /\ lt_result.value.features[i] = At2(shape_raster.array, rc[1], rc[2])
                   /\ Row(lt_result.value.training_data, i - 1)
                          = TrainingBandVector(rc[1], rc[2])

\* C14: a table that get_training_data returns was read through a label grid equal
\* to the raster's: of the raster's height and width, and with every labelled cell
\* over the ground that the raster's pixel of the same row and column covers.
C14_GridEqualityEnforced ==
    outcome = "returned" =>
        /\ shape_raster.array.shape
               = << lt_call.image.array.shape[2], lt_call.image.array.shape[3] >>
        /\ \A rc \in LabelledCells :
               CellBox(shape_raster.gt, rc[1], rc[2])
                   = CellBox(lt_call.image.gt, rc[1], rc[2])

\* C15: every row of a table that get_training_data returns comes from a cell under
\* a polygon and holds as its label the polygon's value of the field that the
\* attribute argument names.
C15_LabelFromNamedAttribute ==
    outcome = "returned" =>
        \A i \in 1..Len(lt_result.value.features) :
            \E rc \in LabelledCells :
                LET p == LastCovering(lt_call.shapefile.polygons,
                                      PixelCentre(shape_raster.gt, rc[1], rc[2]))
                IN  /\ p # 0
                    /\ Row(lt_result.value.training_data, i - 1)
                           = TrainingBandVector(rc[1], rc[2])
                    /\ lt_result.value.features[i]
                           = lt_call.shapefile.polygons[p].values[lt_call.attribute]

\* C16: get_training_data called with a raster path or a shapefile path at which
\* there is nothing logs the path as not found and ends in an error; it returns no
\* table, and no temporary directory and no rasterised shapefile is ever made.
C16_MissingPathsFailFirst ==
    (lt_call.image_file = "missing" \/ lt_call.shape_file = "missing") =>
        /\ tempdirs_made = {}
        /\ tempdirs = {}
        /\ shape_raster = NoFile
        /\ lt_result = Pending
        /\ pc \in {"check", "done"}
        /\ pc = "done" =>
               /\ outcome = "NameError"
               /\ IF lt_call.image_file = "missing"
                  THEN "image_path not found." \in log
                  ELSE "shape_path not found." \in log

C16_Witness ==
    /\ pc = "done"
    /\ lt_call.image_file = "ok"
    /\ lt_call.shape_file = "missing"
    /\ outcome = "NameError"
    /\ "shape_path not found." \in log
    /\ tempdirs_made = {}

\* C21: each iteration of the loop enters one chunk, the next in range(num_chunks),
\* and never one it has entered before (no retry: an iteration that fails ends the
\* call); the chunk starts at or after the end of every chunk entered earlier, so
\* offsets never decrease and slices never overlap; and the iteration changes the
\* class buffer and the probability buffer inside its own slice
\* [offset, offset + size) alone.
C21_ChunksInOrderOwnSlice ==
    [][ pc = "classify" =>
          LET c == chunks'[Len(chunks')]
              outside(i) == i < c.offset \/ i >= c.offset + c.size
          IN  /\ Len(chunks) = chunk_it - 1
              /\ Len(chunks') = Len(chunks) + 1
              /\ \A k \in 1..Len(chunks) :
                     /\ chunks'[k] = chunks[k]
                     /\ chunks[k].offset + chunks[k].size <= c.offset
              /\ c.size >= 0
              /\ c.offset + c.size <= Len(classes.data)
              /\ IF pc' = "done"
                 THEN outcome' \notin {"running", "returned"}
                 ELSE chunk_it' = chunk_it + 1
              /\ classes'.shape = classes.shape
              /\ \A i \in 1..Len(classes.data) :
                     outside(i - 1) => classes'.data[i] = classes.data[i]
              /\ probs'.shape = probs.shape
              /\ \A i \in 1..Len(probs.data) :
                     outside((i - 1) \div NClasses) => probs'.data[i] = probs.data[i] ]_vars

C21_Witness ==
    /\ pc = "scatter"
    /\ num_chunks = 2
    /\ Len(chunks) = 2
    /\ chunks[1] = [offset |-> 0, size |-> 2, input |-> Slice(good_samples, 0, 2)]
    /\ chunks[2].offset = 2
    /\ chunks[2].size = 2
    /\ NDim(good_samples) = 2
    /\ classes.shape = <<4>>
    /\ \A i \in 1..4 : classes.data[i] = ToUByte(PredictRow(Row(good_samples, i - 1)))

\* C22: once get_training_data has ended, by return, by its early error exit or by
\* an exception raised inside it, no temporary directory it or shapefile_to_raster
\* made exists; and the directory of shapefile_to_raster is gone once that call has
\* ended.
C22_TempDirsRemoved ==
    /\ pc = "done" => tempdirs = {}
    /\ pc = "extract" => "shapefile_to_raster" \notin tempdirs

C22_Witness ==
    /\ pc = "done"
    /\ outcome = "IndexError"
    /\ tempdirs_made = {"get_training_data", "shapefile_to_raster"}
    /\ tempdirs = {}

\* C23: the file extract_features_to_csv writes has one line per training sample and
\* no other, each with the sample's label as its first field and its band values, in
\* band order, after it; and load_signatures of the file returns the features and
\* the labels of the table that was written.
C23_CsvRoundTrip ==
    (lt_call.fn = "extract_features_to_csv" /\ pc = "done") =>
        LET table == lt_call.this_training_data
            n == table.shape[1]
        IN  /\ Len(TextLines(csv_file)) = n
            /\ \A i \in 1..n :
                   ParseLine(TextLines(csv_file)[i])
                       = << lt_call.this_classes[i] >> \o Row(table, i - 1)
            /\ outcome = "returned"
            /\ lt_result.value.features = table
            /\ lt_result.value.class_labels.data = lt_call.this_classes

\* The number of samples the model is handed over the chunks entered.
RECURSIVE SumSamples(_)
SumSamples(cs) ==
    IF Len(cs) = 0 THEN 0 ELSE Len(Samples(Head(cs).input)) + SumSamples(Tail(cs))

\* C24: once the good samples are taken, their count is the number of good-sample
\* indices (no exception in its place); the class buffer has that length; every row
\* handed to the model is the full band vector of a valid pixel; and a loop that has
\* run to its end with num_chunks >= 1 has handed the model that many rows.
C24_OneRowPerGoodSample ==
    (image_array # Empty /\ pc # "transform") =>
        /\ outcome # "TypeError"
        /\ n_good_samples = Len(good_indices)
        /\ Planned => Len(classes.data) = Len(good_indices)
        /\ \A k \in 1..Len(chunks) :
               \A s \in 1..Len(Samples(chunks[k].input)) :
                   \E j \in 1..Len(good_indices) :
                       Samples(chunks[k].input)[s] = Row(image_array, good_indices[j])
        /\ (LoopDone /\ num_chunks >= 1) => SumSamples(chunks) = Len(good_indices)

\* The rasters of the run with num_chunks = 1 on the good samples of this run: the
\* model is handed all of them at once.
OneChunkClassRaster ==
    WriteByte(reshape_ml_out_to_raster(
        Arr(<< image_array.shape[1] >>,
            ZipScatter(Full(<< image_array.shape[1] >>, nodata).data, good_indices,
                       UByteAll(predict(good_samples).data))),
        Width, Height))

OneChunkProbRaster ==
    WriteFloat32(reshape_prob_out_to_raster(
        FromRows(ZipScatter(RowsOf(Full(<< image_array.shape[1], NClasses >>,
                                        IntToFloat(nodata))),
                            good_indices,
                            RowsToInt64(RowsOf(Arr(<< n_good_samples, NClasses >>,
                                                   Float32All(predict_proba(good_samples).data))))),
                 NClasses),
        Width, Height))

\* C25: on a raster whose good samples make a table of at least one row (which the
\* run with num_chunks = 1 classifies whatever the model), a run with any
\* num_chunks >= 1 that keeps its output files ends by returning, and its class
\* raster and probability raster are those of the run with num_chunks = 1.
C25_ChunkCountIrrelevant ==
    (pc = "done" /\ image_array # Empty /\ WellFormed(good_samples) /\ num_chunks >= 1
        /\ outcome # "NameError") =>
        /\ outcome = "returned"
        /\ class_out = OneChunkClassRaster
        /\ prob_out_path => prob_out = OneChunkProbRaster

\* C26: a call of classify_image that has ended in an error leaves no file that it
\* created at class_out_path (so the skip test of lines 154-158, os.path.isfile, does
\* not find one in a later run).
C26_NoOutputLeftAfterError ==
    (pc = "done" /\ outcome \notin {"returned", "skipped", "not classified"}) =>
        class_file # "created"

\* C27: autochunk called with a positive mem_limit on a dataset of at least one pixel
\* returns an integer k with 1 <= k <= pixel count; it never falls off its end.
C27_AlwaysAChunkCount ==
    (Returned("autochunk") /\ lt_call.mem_limit > 0) =>
        /\ "value" \in DOMAIN lt_result
        /\ lt_result.value >= 1
        /\ lt_result.value <= lt_call.dataset.RasterXSize * lt_call.dataset.RasterYSize

\* C28: change_from_composite does not call classify_image when the composite or the
\* image is missing; and the call it makes has the caller's skip_existing as its
\* skip_existing, and the defaults of classify_image as its output format and its
\* chunk count.
C28_CompositeDelegatesByName ==
    composite_call # NoCall =>
        /\ ~(Exists(composite_call.composite_file) /\ Exists(composite_call.image_file))
               => /\ pc \in {"composite", "done"}
                  /\ pc = "done" => outcome \in {"skipped", "not classified"}
                  /\ image = Empty
        /\ (pc # "composite" /\ outcome \notin {"skipped", "not classified"})
               => /\ skip_existing = composite_call.skip_existing
                  /\ out_format = DefaultOutFormat
                  /\ num_chunks = DefaultNumChunks

====
